---- MODULE Spec2Model ----
\* Phase-control dimmer (ac_light_control.ino): zero-cross interrupt, Timer1
\* step clock, blocking half-period measurement and the control loop.
\*
\* Execution model (AVR): the two interrupt handlers run with interrupts
\* disabled, so each handler is one atomic action; the main context (setup,
\* measure_half_period, loop) is interleaved with them statement by statement.
\* The clock is read lazily: the time that passed since the previous clock
\* read is chosen when micros()/millis() is called.
\* DimStepCounter++ of the main context (line 128) is a load and a store with
\* interrupts enabled in between. The stores to FireTriac are multi-byte too,
\* but every value fits the low byte, so a handler sees the old or the new one.
EXTENDS Integers, Sequences, FiniteSets, TLC

VARIABLES
    pc,              \* position of the main context
    caller,          \* who called measure_half_period: "setup" or "loop"
    F,               \* local sample counter of measure_half_period
    reg,             \* register holding DimStepCounter during the ++ of line 128
    ZeroXTime,       \* [0..3 -> micros() timestamps]
    DimStep,         \* micros per dimming step
    ResetPeriod,     \* millis() deadline of the next measurement
    DimStepCounter,  \* shared step counter
    FireTriac,       \* [0..3 -> fire-step]
    zero_cross,      \* crossing-occurred flag
    pin,             \* [0..3 -> level of the output line]
    timerOn,         \* fire_triacs is attached to Timer1
    TimerPeriod,     \* period last programmed into Timer1
    now,             \* microseconds of uptime at the latest clock read
    writes,          \* history: digitalWrite calls of the latest tick, per channel
    ticks,           \* history: ticks completed since the latest zero-crossing
    zcSeen,          \* history: crossings since measure_half_period was entered (capped)
    resyncs,         \* history: measurements started by loop()
    raw,             \* history: raw sample behind each FireTriac entry (-1: none)
    highs,           \* history: HIGH writes since the latest zero-crossing, per channel
    stable,          \* history: FireTriac entry unchanged since the latest zero-crossing
    watch            \* history: the channels that highs and stable follow

vars == <<pc, caller, F, reg, ZeroXTime, DimStep, ResetPeriod, DimStepCounter,
          FireTriac, zero_cross, pin, timerOn, TimerPeriod, now, writes, ticks,
          zcSeen, resyncs, raw, highs, stable, watch>>

-----------------------------------------------------------------------------
\* Program constants

PeriodResync == 3000
DimRes == 256
NumTriacs == 4
AnalogMax == 1024
Triacs == 0 .. (NumTriacs - 1)
LOW == "LOW"
HIGH == "HIGH"
DELAY == "delayMicroseconds(2)"

PowerMapTable == <<
    255, 245, 241, 237, 235, 232, 230, 228, 226, 224, 223, 221, 220, 218, 217, 215,
    214, 213, 211, 210, 209, 208, 207, 205, 204, 203, 202, 201, 200, 199, 198, 197,
    196, 195, 194, 193, 192, 192, 191, 190, 189, 188, 187, 186, 185, 185, 184, 183,
    182, 181, 181, 180, 179, 178, 177, 177, 176, 175, 174, 174, 173, 172, 171, 171,
    170, 169, 168, 168, 167, 166, 165, 165, 164, 163, 163, 162, 161, 161, 160, 159,
    158, 158, 157, 156, 156, 155, 154, 154, 153, 152, 152, 151, 150, 150, 149, 148,
    148, 147, 146, 146, 145, 144, 144, 143, 143, 142, 141, 141, 140, 139, 139, 138,
    137, 137, 136, 135, 135, 134, 134, 133, 132, 132, 131, 130, 130, 129, 128, 128,
    127, 127, 126, 125, 125, 124, 123, 123, 122, 121, 121, 120, 120, 119, 118, 118,
    117, 116, 116, 115, 114, 114, 113, 112, 112, 111, 111, 110, 109, 109, 108, 107,
    107, 106, 105, 105, 104, 103, 103, 102, 101, 101, 100, 99, 99, 98, 97, 97,
    96, 95, 94, 94, 93, 92, 92, 91, 90, 90, 89, 88, 87, 87, 86, 85,
    84, 84, 83, 82, 81, 81, 80, 79, 78, 78, 77, 76, 75, 74, 74, 73,
    72, 71, 70, 70, 69, 68, 67, 66, 65, 64, 63, 63, 62, 61, 60, 59,
    58, 57, 56, 55, 54, 53, 52, 51, 50, 48, 47, 46, 45, 44, 42, 41,
    40, 38, 37, 35, 34, 32, 31, 29, 27, 25, 23, 20, 18, 14, 10, 0
  >>

\* Mutant of PowerMap: the table is read from the wrong end
PowerMapReversed(level) == PowerMapTable[DimRes - level]

PowerMap(level) == PowerMapTable[level + 1]

\* Bounds of the model
\* unsigned long int wraps at 2^32 on the target; TLC's integers end below
\* that, so the model's words wrap at 2^30 (same modular arithmetic)
Word == 1073741824
\* millis() and ResetPeriod wrap at 2^32 as well; the model's millisecond words
\* wrap at 2^21, so that the wrap lies within the microseconds of uptime that
\* TLC's integers can count
MilliWord == 2097152
MaxStep == 3                \* the step counter is followed up to this value
MaxNow == 6100000           \* microseconds of uptime that are followed
MaxSeen == 4                \* cap of the crossing history counter

\* Environment of Spec: raw samples the inputs deliver, clock advances between
\* two crossings that are sampled, and between two iterations of loop()
RawLevels == {0, 1023}
Advances == {8333}
LoopAdvances == {0, 3000000}

micros(t) == t % Word
millis(t) == (t \div 1000) % MilliWord
Sub32(a, b) == (a - b + Word) % Word
Add32(a, b) == (a + b) % Word
AddMs(a, b) == (a + b) % MilliWord

-----------------------------------------------------------------------------
\* lines 45-54: the globals when setup() starts; w: the channels followed
Boot(w) ==
    /\ pc = "s_init"
    /\ caller = "setup"
    /\ F = 0
    /\ reg = 0
    /\ ZeroXTime = [i \in 0..3 |-> 0]
    /\ DimStep = 0
    /\ ResetPeriod = PeriodResync
    /\ DimStepCounter = 0
    /\ FireTriac = [i \in Triacs |-> 0]
    /\ zero_cross = 0
    /\ pin = [i \in Triacs |-> LOW]
    /\ timerOn = FALSE
    /\ TimerPeriod = 0
    /\ now = 0
    /\ writes = [i \in Triacs |-> <<>>]
    /\ ticks = 0
    /\ zcSeen = 0
    /\ resyncs = 0
    /\ raw = [i \in Triacs |-> -1]
    /\ highs = [i \in Triacs |-> 0]
    /\ stable = [i \in Triacs |-> TRUE]
    /\ watch = w

Init == Boot({})

-----------------------------------------------------------------------------
\* setup()

\* line 67: Timer1.initialize(DimStep)
setup_timer ==
    /\ pc = "s_init"
    /\ TimerPeriod' = DimStep
    /\ pc' = "s_attach"
    /\ UNCHANGED <<caller, F, reg, ZeroXTime, DimStep, ResetPeriod, DimStepCounter,
                   FireTriac, zero_cross, pin, timerOn, now, writes, ticks,
                   zcSeen, resyncs, raw, highs,
                   stable, watch>>

\* line 68: attachInterrupt(0, zero_cross_detect, FALLING)
setup_attach ==
    /\ pc = "s_attach"
    /\ pc' = "s_pins"
    /\ UNCHANGED <<caller, F, reg, ZeroXTime, DimStep, ResetPeriod, DimStepCounter,
                   FireTriac, zero_cross, pin, timerOn, TimerPeriod, now, writes,
                   ticks, zcSeen, resyncs, raw, highs,
                   stable, watch>>

\* lines 69-73: pinMode(.., OUTPUT) four times, then the call of measure_half_period
setup_pins ==
    /\ pc = "s_pins"
    /\ pc' = "m_clear"
    /\ caller' = "setup"
    /\ zcSeen' = 0
    /\ UNCHANGED <<F, reg, ZeroXTime, DimStep, ResetPeriod, DimStepCounter,
                   FireTriac, zero_cross, pin, timerOn, TimerPeriod, now, writes,
                   ticks, resyncs, raw, highs,
                   stable, watch>>

\* The zero-cross interrupt is delivered once line 68 has run
zcAttached == pc \notin {"s_init", "s_attach"}

-----------------------------------------------------------------------------
\* measure_half_period()

\* lines 77-78: zero_cross = 0; byte F = 0
measure_clear ==
    /\ pc = "m_clear"
    /\ zero_cross' = 0
    /\ F' = 0
    /\ pc' = "m_poll"
    /\ UNCHANGED <<caller, reg, ZeroXTime, DimStep, ResetPeriod, DimStepCounter,
                   FireTriac, pin, timerOn, TimerPeriod, now, writes, ticks,
                   zcSeen, resyncs, raw, highs,
                   stable, watch>>

\* Mutant of measure_poll: a sample is taken without waiting for the flag
measure_poll_unflagged ==
    /\ pc = "m_poll"
    /\ F < 4
    /\ pc' = "m_stamp"
    /\ UNCHANGED <<caller, F, reg, ZeroXTime, DimStep, ResetPeriod, DimStepCounter,
                   FireTriac, zero_cross, pin, timerOn, TimerPeriod, now, writes,
                   ticks, zcSeen, resyncs, raw, highs,
                   stable, watch>>

\* lines 79-80: while (F < 4) if (zero_cross): the busy wait leaves the state
\* alone until the flag is set
measure_poll ==
    /\ pc = "m_poll"
    /\ F < 4
    /\ zero_cross = 1
    /\ pc' = "m_stamp"
    /\ UNCHANGED <<caller, F, reg, ZeroXTime, DimStep, ResetPeriod, DimStepCounter,
                   FireTriac, zero_cross, pin, timerOn, TimerPeriod, now, writes,
                   ticks, zcSeen, resyncs, raw, highs,
                   stable, watch>>

\* line 81: ZeroXTime[F] = micros()
measure_stamp(adv, maxNow) ==
    /\ pc = "m_stamp"
    /\ \E d \in adv :
         /\ now + d <= maxNow
         /\ now' = now + d
         /\ ZeroXTime' = [ZeroXTime EXCEPT ![F] = micros(now + d)]
    /\ pc' = "m_reset"
    /\ UNCHANGED <<caller, F, reg, DimStep, ResetPeriod, DimStepCounter, FireTriac,
                   zero_cross, pin, timerOn, TimerPeriod, writes, ticks, zcSeen,
                   resyncs, raw, highs,
                   stable, watch>>

\* Mutant of measure_reset: the sample counter is not bumped
measure_reset_uncounted ==
    /\ pc = "m_reset"
    /\ zero_cross' = 0
    /\ pc' = "m_poll"
    /\ UNCHANGED <<caller, F, reg, ZeroXTime, DimStep, ResetPeriod, DimStepCounter,
                   FireTriac, pin, timerOn, TimerPeriod, now, writes, ticks,
                   zcSeen, resyncs, raw, highs,
                   stable, watch>>

\* lines 82-83 and the loop test of line 79: zero_cross = 0; F++
measure_reset ==
    /\ pc = "m_reset"
    /\ zero_cross' = 0
    /\ F' = F + 1
    /\ pc' = IF F + 1 < 4 THEN "m_poll" ELSE "m_calc"
    /\ UNCHANGED <<caller, reg, ZeroXTime, DimStep, ResetPeriod, DimStepCounter,
                   FireTriac, pin, timerOn, TimerPeriod, now, writes, ticks,
                   zcSeen, resyncs, raw, highs,
                   stable, watch>>

\* Mutant of HalfPeriod: the sum of the three deltas is divided by the four samples
HalfPeriodOfFour(t) ==
    (Add32(Add32(Sub32(t[1], t[0]), Sub32(t[2], t[1])), Sub32(t[3], t[2]))) \div 4

\* line 86: the half period, as the unsigned 32-bit expression computes it
HalfPeriod(t) ==
    (Add32(Add32(Sub32(t[1], t[0]), Sub32(t[2], t[1])), Sub32(t[3], t[2]))) \div 3

CalcDimStep(t) == HalfPeriod(t) \div DimRes

measure_calc ==
    /\ pc = "m_calc"
    /\ DimStep' = CalcDimStep(ZeroXTime)
    /\ pc' = "m_attach"
    /\ UNCHANGED <<caller, F, reg, ZeroXTime, ResetPeriod, DimStepCounter, FireTriac,
                   zero_cross, pin, timerOn, TimerPeriod, now, writes, ticks,
                   zcSeen, resyncs, raw, highs,
                   stable, watch>>

\* line 87: Timer1.attachInterrupt(fire_triacs, DimStep)
measure_attach ==
    /\ pc = "m_attach"
    /\ timerOn' = TRUE
    /\ TimerPeriod' = DimStep
    /\ pc' = "m_sched"
    /\ UNCHANGED <<caller, F, reg, ZeroXTime, DimStep, ResetPeriod, DimStepCounter,
                   FireTriac, zero_cross, pin, now, writes, ticks, zcSeen,
                   resyncs, raw, highs,
                   stable, watch>>

\* Mutant of NextResetPeriod: the deadline is taken from the clock
NextResetPeriodFromNow(deadline, t) == AddMs(millis(t), PeriodResync)

\* line 88: ResetPeriod = ResetPeriod + PeriodResync
NextResetPeriod(deadline, t) == AddMs(deadline, PeriodResync)

\* line 88 and the return: to loop() after setup (line 74), to line 124 after a resync
measure_sched ==
    /\ pc = "m_sched"
    /\ ResetPeriod' = NextResetPeriod(ResetPeriod, now)
    /\ pc' = IF caller = "setup" THEN "l_check" ELSE "l_ft0"
    /\ UNCHANGED <<caller, F, reg, ZeroXTime, DimStep, DimStepCounter, FireTriac,
                   zero_cross, pin, timerOn, TimerPeriod, now, writes, ticks,
                   zcSeen, resyncs, raw, highs,
                   stable, watch>>

-----------------------------------------------------------------------------
\* loop()

\* Mutant of ResyncDue: the measurement is started one interval early
ResyncDueEarly(t, deadline) == millis(t) + PeriodResync >= deadline

\* line 120: if (millis() >= ResetPeriod)
ResyncDue(t, deadline) == millis(t) >= deadline

\* lines 120-121
loop_check(adv, maxNow) ==
    /\ pc = "l_check"
    /\ \E d \in adv :
         /\ now + d <= maxNow
         /\ now' = now + d
         /\ IF ResyncDue(now + d, ResetPeriod)
              THEN /\ pc' = "m_clear"
                   /\ caller' = "loop"
                   /\ zcSeen' = 0
                   /\ resyncs' = resyncs + 1
              ELSE /\ pc' = "l_ft0"
                   /\ UNCHANGED <<caller, zcSeen, resyncs>>
    /\ UNCHANGED <<F, reg, ZeroXTime, DimStep, ResetPeriod, DimStepCounter, FireTriac,
                   zero_cross, pin, timerOn, TimerPeriod, writes, ticks, raw, highs,
                   stable, watch>>

FtPc(i) == <<"l_ft0", "l_ft1", "l_ft2", "l_ft3">>[i + 1]

\* Mutant of Scale: the product is computed in a 16-bit int
ScaleInt16(r) == ((DimRes * r) % 65536) \div AnalogMax

\* lines 124-127: the level the table is indexed with, and the published fire-step
Scale(r) == (DimRes * r) \div AnalogMax

FireStep(r) == PowerMap(Scale(r))

\* lines 124-127: FireTriac[i] = PowerMap[(DimRes * analogRead(..)) / 1024]
loop_publish(i, levels) ==
    /\ pc = FtPc(i)
    /\ \E r \in levels :
         /\ FireTriac' = [FireTriac EXCEPT ![i] = FireStep(r)]
         /\ raw' = [raw EXCEPT ![i] = r]
         /\ stable' = [stable EXCEPT
                           ![i] = @ /\ (i \in watch => FireStep(r) = FireTriac[i])]
    /\ pc' = IF i + 1 < NumTriacs THEN FtPc(i + 1) ELSE "l_rd"
    /\ UNCHANGED <<caller, F, reg, ZeroXTime, DimStep, ResetPeriod, DimStepCounter,
                   zero_cross, pin, timerOn, TimerPeriod, now, writes, ticks,
                   zcSeen, resyncs, highs, watch>>

\* line 128, DimStepCounter++ in the main context: the load of the counter
loop_load ==
    /\ pc = "l_rd"
    /\ reg' = DimStepCounter
    /\ pc' = "l_wr"
    /\ UNCHANGED <<caller, F, ZeroXTime, DimStep, ResetPeriod, DimStepCounter,
                   FireTriac, zero_cross, pin, timerOn, TimerPeriod, now, writes,
                   ticks, zcSeen, resyncs, raw, highs,
                   stable, watch>>

\* line 128: the value the main context stores back
LoopCounter(old, loaded) == Add32(loaded, 1)

\* line 128: the store of the incremented counter; interrupts are enabled
\* between the load and the store
loop_store(maxStep) ==
    /\ pc = "l_wr"
    /\ reg < maxStep
    /\ DimStepCounter' = LoopCounter(DimStepCounter, reg)
    /\ pc' = "l_check"
    /\ UNCHANGED <<caller, F, reg, ZeroXTime, DimStep, ResetPeriod, FireTriac,
                   zero_cross, pin, timerOn, TimerPeriod, now, writes, ticks,
                   zcSeen, resyncs, raw, highs,
                   stable, watch>>

-----------------------------------------------------------------------------
\* Interrupt handlers

\* lines 91-94
zero_cross_detect ==
    /\ zero_cross' = 1
    /\ DimStepCounter' = 0
    /\ ticks' = 0
    /\ zcSeen' = IF zcSeen < MaxSeen THEN zcSeen + 1 ELSE zcSeen
    /\ highs' = [i \in Triacs |-> 0]
    /\ stable' = [i \in Triacs |-> TRUE]
    /\ UNCHANGED <<pc, caller, F, reg, ZeroXTime, DimStep, ResetPeriod, FireTriac,
                   pin, timerOn, TimerPeriod, now, writes, resyncs, raw, watch>>

ZeroCross == zcAttached /\ zero_cross_detect

\* Mutant of TriacWrites: the gate is released at full power too
TriacWritesAlwaysLow(s, c) ==
    IF s = c
      THEN (IF s # DimRes THEN <<HIGH>> ELSE <<>>)
           \o (IF s # DimRes /\ s # 0 THEN <<DELAY>> ELSE <<>>)
           \o <<LOW>>
      ELSE <<>>

\* Mutant of TriacWrites: the pulse is issued from the fire-step onwards
TriacWritesFromStep(s, c) ==
    IF s <= c
      THEN (IF s # DimRes THEN <<HIGH>> ELSE <<>>)
           \o (IF s # DimRes /\ s # 0 THEN <<DELAY>> ELSE <<>>)
           \o (IF s # 0 THEN <<LOW>> ELSE <<>>)
      ELSE <<>>

\* lines 96-109: the digitalWrite calls (and the settle delay) of one call, for
\* fire-step s seen with step counter c
TriacWrites(s, c) ==
    IF s = c
      THEN (IF s # DimRes THEN <<HIGH>> ELSE <<>>)
           \o (IF s # DimRes /\ s # 0 THEN <<DELAY>> ELSE <<>>)
           \o (IF s # 0 THEN <<LOW>> ELSE <<>>)
      ELSE <<>>

\* Mutant of LastLevel: a write flips the line instead of setting it
LastLevelToggled(w, level) ==
    LET lv == SelectSeq(w, LAMBDA x : x # DELAY)
    IN IF lv = <<>> THEN level ELSE IF level = HIGH THEN LOW ELSE HIGH

LastLevel(w, level) ==
    LET lv == SelectSeq(w, LAMBDA x : x # DELAY)
    IN IF lv = <<>> THEN level ELSE lv[Len(lv)]

\* the HIGH writes among the calls w
Highs(w) == Cardinality({k \in 1 .. Len(w) : w[k] = HIGH})

\* lines 96-109: fire_triac(TriacNum) on the handler's view st of the step
\* counter, the output lines and the calls made so far
fire_triac(st, TriacNum) ==
    LET w == TriacWrites(FireTriac[TriacNum], st.cnt)
    IN [cnt |-> st.cnt,
        pin |-> [st.pin EXCEPT ![TriacNum] = LastLevel(w, st.pin[TriacNum])],
        writes |-> [st.writes EXCEPT ![TriacNum] = w]]

RECURSIVE FireLoopCounting(_, _)
\* Mutant of FireLoop: the step counter is bumped after every channel
FireLoopCounting(st, i) ==
    IF i < NumTriacs
      THEN FireLoopCounting([fire_triac(st, i) EXCEPT !.cnt = Add32(st.cnt, 1)], i + 1)
      ELSE st

RECURSIVE FireLoop(_, _)
\* lines 113-114: for (i = 0; i < 4; i++) fire_triac(i)
FireLoop(st, i) ==
    IF i < NumTriacs THEN FireLoop(fire_triac(st, i), i + 1) ELSE st

\* line 116: DimStepCounter++
TickCounter(c) == Add32(c, 1)

\* lines 111-117
fire_triacs ==
    LET st == FireLoop([cnt |-> DimStepCounter, pin |-> pin,
                        writes |-> [i \in Triacs |-> <<>>]], 0)
    IN /\ pin' = st.pin
       /\ writes' = st.writes
       /\ DimStepCounter' = TickCounter(st.cnt)
       /\ ticks' = ticks + 1
       /\ highs' = [i \in Triacs |->
                       IF i \in watch THEN highs[i] + Highs(st.writes[i]) ELSE highs[i]]
       /\ UNCHANGED <<pc, caller, F, reg, ZeroXTime, DimStep, ResetPeriod, FireTriac,
                      zero_cross, timerOn, TimerPeriod, now, zcSeen, resyncs, raw,
                      stable, watch>>

\* Timer1 delivers ticks once line 87 has attached the handler
TimerTick(maxStep) ==
    timerOn /\ DimStepCounter < maxStep /\ ticks < maxStep /\ fire_triacs

-----------------------------------------------------------------------------
\* One step of the program in an environment: the raw samples, the clock
\* advances, and the bounds up to which counter and clock are followed
Step(levels, adv, loopAdv, maxStep, maxNow) ==
    \/ setup_timer
    \/ setup_attach
    \/ setup_pins
    \/ measure_clear
    \/ measure_poll
    \/ measure_stamp(adv, maxNow)
    \/ measure_reset
    \/ measure_calc
    \/ measure_attach
    \/ measure_sched
    \/ loop_check(loopAdv, maxNow)
    \/ \E i \in Triacs : loop_publish(i, levels)
    \/ loop_load
    \/ loop_store(maxStep)
    \/ ZeroCross
    \/ TimerTick(maxStep)

Next == Step(RawLevels, Advances, LoopAdvances, MaxStep, MaxNow)

Spec == Init /\ [][Next]_vars

-----------------------------------------------------------------------------
\* The program with a clock that can stall a measurement for longer than one
\* resync interval; the inputs stay at full scale

ClockMaxStep == 2
ClockMaxNow == 12700000
ClockLevels == {1023}
ClockAdvances == {8333, 3500000}

NextClock == Step(ClockLevels, ClockAdvances, LoopAdvances, ClockMaxStep, ClockMaxNow)

SpecClock == Init /\ [][NextClock]_vars

-----------------------------------------------------------------------------
\* The step-clock handler on its own, from the state a zero-crossing leaves,
\* for every combination of fire-steps 0, a table value, and the two ends

StepSamples == {0, 10, DimRes - 1, DimRes}

InitActuator ==
    /\ pc = "l_check"
    /\ caller = "setup"
    /\ F = 4
    /\ reg = 0
    /\ ZeroXTime = [i \in 0..3 |-> 8333 * (i + 1)]
    /\ DimStep = CalcDimStep(ZeroXTime)
    /\ ResetPeriod = 2 * PeriodResync
    /\ DimStepCounter = 0
    /\ FireTriac \in [Triacs -> StepSamples]
    /\ zero_cross = 1
    /\ pin = [i \in Triacs |-> LOW]
    /\ timerOn = TRUE
    /\ TimerPeriod = DimStep
    /\ now = 8333 * 4
    /\ writes = [i \in Triacs |-> <<>>]
    /\ ticks = 0
    /\ zcSeen = MaxSeen
    /\ resyncs = 0
    /\ raw = [i \in Triacs |-> -1]
    /\ highs = [i \in Triacs |-> 0]
    /\ stable = [i \in Triacs |-> TRUE]
    /\ watch = {}

ActuatorTick == DimStepCounter <= DimRes /\ fire_triacs

NextActuator == ActuatorTick

SpecActuator == InitActuator /\ [][NextActuator]_vars

-----------------------------------------------------------------------------
\* Line 86 onwards on its own, for four sampled timestamps

FirstStamps == {0, 1000, Word - 20000}
StampDeltas == {8333, 8334, 10000}

InitMeasure ==
    /\ pc = "m_calc"
    /\ caller = "setup"
    /\ F = 4
    /\ reg = 0
    /\ \E t0 \in FirstStamps : \E d1, d2, d3 \in StampDeltas :
         /\ ZeroXTime = [i \in 0..3 |->
                           micros(t0 + (IF i >= 1 THEN d1 ELSE 0)
                                     + (IF i >= 2 THEN d2 ELSE 0)
                                     + (IF i >= 3 THEN d3 ELSE 0))]
         /\ now = t0 + d1 + d2 + d3
    /\ DimStep = 0
    /\ ResetPeriod = PeriodResync
    /\ DimStepCounter = 0
    /\ FireTriac = [i \in Triacs |-> 0]
    /\ zero_cross = 0
    /\ pin = [i \in Triacs |-> LOW]
    /\ timerOn = FALSE
    /\ TimerPeriod = 0
    /\ writes = [i \in Triacs |-> <<>>]
    /\ ticks = 0
    /\ zcSeen = MaxSeen
    /\ resyncs = 0
    /\ raw = [i \in Triacs |-> -1]
    /\ highs = [i \in Triacs |-> 0]
    /\ stable = [i \in Triacs |-> TRUE]
    /\ watch = {}

NextMeasure ==
    \/ measure_calc
    \/ measure_attach
    \/ measure_sched

SpecMeasure == InitMeasure /\ [][NextMeasure]_vars

-----------------------------------------------------------------------------
\* Positions of the main context

SetupPcs == {"s_init", "s_attach", "s_pins"}
SamplePcs == {"m_poll", "m_stamp", "m_reset"}
WaitPcs == {"m_clear"} \cup SamplePcs
DonePcs == {"m_calc", "m_attach", "m_sched"}
MeasurePcs == WaitPcs \cup DonePcs
LoopPcs == {"l_check", "l_ft0", "l_ft1", "l_ft2", "l_ft3", "l_rd", "l_wr"}

\* A step of the main context moves pc; a handler leaves it alone
MainStep == pc' # pc
TickStep == ticks' = ticks + 1

-----------------------------------------------------------------------------
\* C1: a call of the actuator whose fire-step s equals the step counter writes
\* HIGH, waits the settle delay and writes LOW when 0 < s < DimRes, writes HIGH
\* only when s = 0, and never writes HIGH when s = DimRes; a call whose
\* fire-step differs from the step counter writes nothing; a line that is HIGH
\* leaves HIGH only in a call with s # 0 that matches the counter.
ActuatorContract ==
    [][TickStep =>
         \A ch \in Triacs :
           LET s == FireTriac[ch]
               c == DimStepCounter
           IN /\ (s # c => writes'[ch] = <<>> /\ pin'[ch] = pin[ch])
              /\ (s = c /\ 0 < s /\ s < DimRes =>
                    writes'[ch] = <<HIGH, DELAY, LOW>> /\ pin'[ch] = LOW)
              /\ (s = c /\ s = 0 => writes'[ch] = <<HIGH>> /\ pin'[ch] = HIGH)
              /\ (s = c /\ s = DimRes =>
                    /\ \A k \in 1..Len(writes'[ch]) : writes'[ch][k] # HIGH
                    /\ pin'[ch] # HIGH)
              /\ (pin[ch] = HIGH /\ pin'[ch] # HIGH => s = c /\ s # 0)]_vars

\* C1 witness: one channel was pulsed at its table fire-step in the latest
\* tick, a full-power channel is still HIGH from its tick, and a channel with
\* fire-step DimRes has stayed untouched
ActuatorContractWitness ==
    \E a, b, d \in Triacs :
       /\ 0 < FireTriac[a] /\ FireTriac[a] < DimRes
       /\ DimStepCounter = FireTriac[a] + 1
       /\ writes[a] = <<HIGH, DELAY, LOW>>
       /\ FireTriac[b] = 0 /\ pin[b] = HIGH /\ writes[b] = <<>>
       /\ FireTriac[d] = DimRes /\ writes[d] = <<>> /\ pin[d] = LOW

\* C2: a tick compares every channel with the step-counter value it started
\* with, calls the firing logic for exactly the channels whose fire-step equals
\* that value, and leaves the step counter one higher.
TickEvaluatesAll ==
    [][TickStep =>
         /\ DimStepCounter' = DimStepCounter + 1
         /\ \A ch \in Triacs :
              (writes'[ch] # <<>>) <=> (FireTriac[ch] = DimStepCounter)]_vars

\* C2 witness: the latest tick fired one channel and passed over another
TickEvaluatesAllWitness ==
    /\ pc \in LoopPcs
    /\ ticks = 1
    /\ DimStepCounter = 1
    /\ \E a, b \in Triacs :
         /\ FireTriac[a] = 0 /\ writes[a] = <<HIGH>>
         /\ FireTriac[b] = DimRes - 1 /\ writes[b] = <<>>

\* C3 (as claimed): the step counter equals the number of ticks completed since
\* the latest zero-crossing.
CounterIsTicksSinceCrossing == DimStepCounter = ticks

\* C4: for timestamps t0 < t1 < t2 < t3 the step duration is the mean of the
\* three deltas divided by DimRes, and that value is programmed into Timer1.
StepDurationIsMean ==
    LET t == ZeroXTime
        mean == ((t[1] - t[0]) + (t[2] - t[1]) + (t[3] - t[2])) \div 3
    IN (pc \in {"m_attach", "m_sched"} /\ t[0] < t[1] /\ t[1] < t[2] /\ t[2] < t[3]) =>
          /\ DimStep = mean \div DimRes
          /\ (pc = "m_sched" => TimerPeriod = mean \div DimRes)

\* C4 witness: the timestamps 0, 8333, 16666, 25000 gave step duration 8333/256
StepDurationIsMeanWitness ==
    /\ pc = "m_sched"
    /\ ZeroXTime = [i \in 0..3 |-> <<0, 8333, 16666, 25000>>[i + 1]]
    /\ DimStep = 32
    /\ TimerPeriod = 32

\* C5: measure_half_period consumes and clears the crossing flag once per
\* sample, each time after a crossing of its own that occurred after the call
\* began; it gets past the wait only with four samples; while it waits, the
\* step duration, the timer, the deadline and the fire-steps stay as they are.
MeasureWaitsForFour ==
    /\ [](/\ pc \in SamplePcs => F <= zcSeen
          /\ pc \in {"m_stamp", "m_reset"} => F + 1 <= zcSeen
          /\ pc \in DonePcs => F = 4 /\ zcSeen >= 4)
    /\ [][/\ (pc \in SamplePcs /\ F' # F) =>
                pc = "m_reset" /\ F' = F + 1 /\ zero_cross' = 0
          /\ (pc \in WaitPcs /\ pc' \in DonePcs) => F' = 4
          /\ pc \in WaitPcs =>
                UNCHANGED <<DimStep, TimerPeriod, timerOn, ResetPeriod, FireTriac>>]_vars

\* C5 witness: a resync call has taken its four samples and is about to return
MeasureWaitsForFourWitness ==
    pc = "m_sched" /\ caller = "loop" /\ F = 4 /\ zcSeen = 4

\* C6 (as claimed): when measure_half_period finishes, the deadline is the
\* current time plus the resync interval.
DeadlineIsNowPlusInterval ==
    [][(pc = "m_sched" /\ MainStep) =>
          ResetPeriod' = millis(now) + PeriodResync]_vars

\* Calls of measure_half_period that have returned
CompletedCalls ==
    IF pc \in SetupPcs \/ (pc \in MeasurePcs /\ caller = "setup") THEN 0
    ELSE IF pc \in MeasurePcs THEN resyncs
    ELSE resyncs + 1

\* C6 (amended): when measure_half_period finishes, the deadline is its
\* previous value plus the resync interval, so after n calls it is
\* (n + 1) * PeriodResync whatever the clock shows.
DeadlineIsPreviousPlusInterval ==
    /\ [](ResetPeriod = (PeriodResync * (CompletedCalls + 1)) % MilliWord)
    /\ [][(pc = "m_sched" /\ MainStep) =>
             ResetPeriod' = (ResetPeriod + PeriodResync) % MilliWord]_vars

\* C6 witness: a resync call that blocked for more than one interval has
\* returned, and the deadline it left is already behind the clock
DeadlineIsPreviousPlusIntervalWitness ==
    /\ pc = "l_ft0"
    /\ resyncs = 1
    /\ ZeroXTime[3] - ZeroXTime[0] > 1000 * PeriodResync
    /\ ResetPeriod = 3 * PeriodResync
    /\ millis(now) > ResetPeriod

\* C7: the k-th measurement that loop() starts is started when uptime has
\* reached the boundary (k + 1) * PeriodResync, also after a measurement that
\* blocked for longer than one interval.
ResyncCadence ==
    /\ [](resyncs >= 1 => millis(now) >= PeriodResync * (resyncs + 1))
    /\ [][resyncs' # resyncs =>
             /\ resyncs' = resyncs + 1
             /\ pc = "l_check"
             /\ millis(now') >= PeriodResync * (resyncs' + 1)]_vars

\* C7 witness: the second resync is started right after one that blocked for
\* longer than an interval
ResyncCadenceWitness ==
    /\ pc = "m_clear"
    /\ resyncs = 2
    /\ ZeroXTime[3] - ZeroXTime[0] > 1000 * PeriodResync
    /\ millis(now) >= 3 * PeriodResync

\* The table is non-increasing over all pairs of levels
TableNonIncreasing ==
    \A L1, L2 \in 0 .. (DimRes - 1) : L1 < L2 => PowerMap(L1) >= PowerMap(L2)

\* C8: the table is monotonically non-increasing, and so are the fire-steps
\* published for two raw samples.
PowerMapMonotone ==
    /\ TableNonIncreasing
    /\ \A a, b \in Triacs :
         (raw[a] >= 0 /\ raw[b] >= 0 /\ Scale(raw[a]) < Scale(raw[b])) =>
            FireTriac[a] >= FireTriac[b]

\* C8 witness: two channels hold the fire-steps of a lower and a higher level
PowerMapMonotoneWitness ==
    \E a, b \in Triacs :
       /\ raw[a] = 0 /\ raw[b] = 1023
       /\ FireTriac[a] > FireTriac[b]

\* C9 (as claimed): the level DimRes - 1 maps to 0 and the level 0 maps to
\* DimRes: a fire-step published for the top level is 0, one published for
\* level 0 is DimRes.
PowerMapEndpoints ==
    \A ch \in Triacs :
       /\ (raw[ch] >= 0 /\ Scale(raw[ch]) = DimRes - 1) =>
             FireTriac[ch] = PowerMap(DimRes - 1) /\ FireTriac[ch] = 0
       /\ (raw[ch] >= 0 /\ Scale(raw[ch]) = 0) =>
             FireTriac[ch] = PowerMap(0) /\ FireTriac[ch] = DimRes

\* C10 (as claimed): a step of loop() leaves the step counter alone, a handler
\* leaves the fire-steps alone, and only handlers write the step counter.
SingleWriter ==
    [][/\ (MainStep /\ pc \in LoopPcs) => DimStepCounter' = DimStepCounter
       /\ ~MainStep => FireTriac' = FireTriac
       /\ DimStepCounter' # DimStepCounter => ~MainStep]_vars

\* A step of the zero-cross handler (a tick leaves ticks above 0, the main
\* context moves pc)
CrossingStep ==
    ~MainStep /\ zero_cross' = 1 /\ DimStepCounter' = 0 /\ ticks' = 0

\* C11 (as claimed): at every tick, each channel's fire-step is the table
\* value of a raw sample that loop() read for that channel.
TickSeesPublishedSteps ==
    [][TickStep =>
         \A ch \in Triacs :
            raw[ch] >= 0 /\ FireTriac[ch] = PowerMap((DimRes * raw[ch]) \div AnalogMax)]_vars

\* C14 (as claimed): while measure_half_period waits and no crossing has come
\* since the call began, no tick sets an output line HIGH.
NoFiringWhileBlocked ==
    [][(TickStep /\ pc \in WaitPcs /\ zcSeen = 0) =>
          \A ch \in Triacs :
             \A k \in 1..Len(writes'[ch]) : writes'[ch][k] # HIGH]_vars

\* The fourth crossing of the call has been noticed: later crossings are not
\* between the first and the fourth sample
FourthNoticed == F = 3 /\ pc \in {"m_stamp", "m_reset"}

\* C18 (as claimed): the flag is cleared on entry, and every crossing that
\* arrives while the call is sampling, up to the fourth sampled one, finds the
\* flag clear, so that it gets a sample of its own.
NoMergedCrossing ==
    [][/\ (pc = "m_clear" /\ MainStep) => zero_cross' = 0
       /\ (CrossingStep /\ pc \in SamplePcs /\ ~FourthNoticed) => zero_cross = 0]_vars

-----------------------------------------------------------------------------
\* One call of fire_triac on its own, for every fire-step and step-counter
\* sample and every level of the lines; the step counter is left alone

LineLevels == {LOW, HIGH}

InitCall ==
    /\ pc = "l_check"
    /\ caller = "setup"
    /\ F = 4
    /\ reg = 0
    /\ ZeroXTime = [i \in 0..3 |-> 8333 * (i + 1)]
    /\ DimStep = CalcDimStep(ZeroXTime)
    /\ ResetPeriod = 2 * PeriodResync
    /\ DimStepCounter \in StepSamples
    /\ FireTriac \in [Triacs -> StepSamples]
    /\ zero_cross = 0
    /\ pin \in [Triacs -> LineLevels]
    /\ timerOn = TRUE
    /\ TimerPeriod = DimStep
    /\ now = 8333 * 4
    /\ writes = [i \in Triacs |-> <<>>]
    /\ ticks = 0
    /\ zcSeen = MaxSeen
    /\ resyncs = 0
    /\ raw = [i \in Triacs |-> -1]
    /\ highs = [i \in Triacs |-> 0]
    /\ stable = [i \in Triacs |-> TRUE]
    /\ watch = {}

\* lines 96-109: fire_triac(TriacNum), called once
actuator_call(TriacNum) ==
    LET st == fire_triac([cnt |-> DimStepCounter, pin |-> pin, writes |-> writes],
                         TriacNum)
    IN /\ pin' = st.pin
       /\ writes' = st.writes
       /\ highs' = [highs EXCEPT
                       ![TriacNum] = IF TriacNum \in watch
                                       THEN @ + Highs(st.writes[TriacNum]) ELSE @]
       /\ UNCHANGED <<pc, caller, F, reg, ZeroXTime, DimStep, ResetPeriod,
                      DimStepCounter, FireTriac, zero_cross, timerOn, TimerPeriod,
                      now, ticks, zcSeen, resyncs, raw, stable, watch>>

NextCall == \E ch \in Triacs : actuator_call(ch)

SpecCall == InitCall /\ [][NextCall]_vars

-----------------------------------------------------------------------------
\* Channel Command Update on its own, from the state setup() leaves: channel
\* 0 is fed every raw sample, the other channels stay at full scale

MapperMaxStep == 1
AllRawLevels == 0 .. (AnalogMax - 1)
MapperLevels(i) == IF i = 0 THEN AllRawLevels ELSE {AnalogMax - 1}

InitLoop ==
    /\ pc = "l_check"
    /\ caller = "setup"
    /\ F = 4
    /\ reg = 0
    /\ ZeroXTime = [i \in 0..3 |-> 8333 * (i + 1)]
    /\ DimStep = CalcDimStep(ZeroXTime)
    /\ ResetPeriod = 2 * PeriodResync
    /\ DimStepCounter = 0
    /\ FireTriac = [i \in Triacs |-> 0]
    /\ zero_cross = 0
    /\ pin = [i \in Triacs |-> LOW]
    /\ timerOn = TRUE
    /\ TimerPeriod = DimStep
    /\ now = 8333 * 4
    /\ writes = [i \in Triacs |-> <<>>]
    /\ ticks = 0
    /\ zcSeen = MaxSeen
    /\ resyncs = 0
    /\ raw = [i \in Triacs |-> -1]
    /\ highs = [i \in Triacs |-> 0]
    /\ stable = [i \in Triacs |-> TRUE]
    /\ watch = {}

NextMapper ==
    \/ loop_check({0}, MaxNow)
    \/ \E i \in Triacs : loop_publish(i, MapperLevels(i))
    \/ loop_load
    \/ loop_store(MapperMaxStep)
    \/ ZeroCross

SpecMapper == InitLoop /\ [][NextMapper]_vars

-----------------------------------------------------------------------------
\* The ticks of one half-cycle after a crossing, for fire-steps published from
\* raw samples 0 and full scale

HalfCycleLevels == {0, AnalogMax - 1}

InitHalfCycle ==
    /\ pc = "l_check"
    /\ caller = "setup"
    /\ F = 4
    /\ reg = 0
    /\ ZeroXTime = [i \in 0..3 |-> 8333 * (i + 1)]
    /\ DimStep = CalcDimStep(ZeroXTime)
    /\ ResetPeriod = 2 * PeriodResync
    /\ DimStepCounter = 0
    /\ raw \in [Triacs -> HalfCycleLevels]
    /\ highs = [i \in Triacs |-> 0]
    /\ stable = [i \in Triacs |-> TRUE]
    /\ watch = {}
    /\ FireTriac = [i \in Triacs |-> FireStep(raw[i])]
    /\ zero_cross = 1
    /\ pin = [i \in Triacs |-> LOW]
    /\ timerOn = TRUE
    /\ TimerPeriod = DimStep
    /\ now = 8333 * 4
    /\ writes = [i \in Triacs |-> <<>>]
    /\ ticks = 0
    /\ zcSeen = MaxSeen
    /\ resyncs = 0

NextHalfCycle == ActuatorTick

SpecHalfCycle == InitHalfCycle /\ [][NextHalfCycle]_vars

-----------------------------------------------------------------------------
\* C13: a second call of fire_triac with the same fire-step and step counter
\* leaves the output lines and the step counter as the first call left them.
ActuatorIdempotent ==
    /\ [](\A ch \in Triacs :
            LET st == [cnt |-> DimStepCounter, pin |-> pin, writes |-> writes]
                once == fire_triac(st, ch)
                twice == fire_triac(once, ch)
            IN twice.pin = once.pin /\ twice.cnt = once.cnt /\ once.cnt = st.cnt)
    /\ [][\A ch \in Triacs :
            writes[ch] # <<>> =>
               pin'[ch] = pin[ch] /\ DimStepCounter' = DimStepCounter]_vars

\* C13 witness: calls have pulsed two lines whose fire-step is the table value
\* the step counter stands at
ActuatorIdempotentWitness ==
    \E a, b \in Triacs :
       /\ a # b
       /\ 0 < DimStepCounter /\ DimStepCounter < DimRes
       /\ FireTriac[a] = DimStepCounter /\ FireTriac[b] = DimStepCounter
       /\ writes[a] = <<HIGH, DELAY, LOW>> /\ pin[a] = LOW
       /\ writes[b] = <<HIGH, DELAY, LOW>> /\ pin[b] = LOW

\* C15: every raw sample 0..1023 indexes the table at (DimRes * r) / 1024,
\* which lies in 0..DimRes-1, and the published fire-step lies in 0..DimRes.
PublishedInRange ==
    \A ch \in Triacs :
       raw[ch] >= 0 =>
          LET idx == (DimRes * raw[ch]) \div AnalogMax
          IN /\ idx \in 0 .. (DimRes - 1)
             /\ FireTriac[ch] = PowerMapTable[idx + 1]
             /\ FireTriac[ch] \in 0 .. DimRes

\* C15 witness: the mid-scale sample 512 was published as the entry of level 128
PublishedInRangeWitness ==
    raw[0] = 512 /\ FireTriac[0] = 127 /\ raw[1] = 1023 /\ FireTriac[1] = 0

\* C16 (as claimed): a channel whose fire-step comes from raw sample 0 is never
\* set HIGH.
ZeroPowerNeverFires ==
    \A ch \in Triacs :
       raw[ch] = 0 =>
          /\ pin[ch] = LOW
          /\ \A k \in 1..Len(writes[ch]) : writes[ch][k] # HIGH

-----------------------------------------------------------------------------
\* The program with the scheduling the hardware gives: the main context runs
\* whenever it can take a step, and the mains keeps delivering crossings

NextFair == Step(ClockLevels, Advances, LoopAdvances, ClockMaxStep, MaxNow)

MainContext == NextFair /\ MainStep

SpecFair ==
    /\ Init
    /\ [][NextFair]_vars
    /\ WF_vars(MainContext)
    /\ WF_vars(ZeroCross)

\* The clock range that is followed leaves room for the four samples of a call
RoomForCall == \A d \in Advances : now + 4 * d <= MaxNow

\* C17: with crossings that keep coming and a main context that keeps running,
\* a call of measure_half_period that begins (within the clock range that is
\* followed) returns; the step clock is then attached with the new step
\* duration and loop() publishes a fire-step again.
MeasureReturns ==
    (pc = "m_clear" /\ RoomForCall) ~>
       (pc = "l_ft1" /\ timerOn /\ TimerPeriod = DimStep /\ raw[0] >= 0)

\* C17 witness: a resync call has returned and loop() has published again
MeasureReturnsWitness ==
    /\ pc = "l_ft1"
    /\ caller = "loop"
    /\ resyncs = 1
    /\ timerOn
    /\ TimerPeriod = DimStep
    /\ raw[0] >= 0

-----------------------------------------------------------------------------
\* The program shortly before the millisecond clock wraps: loop() is running,
\* 698 calls of measure_half_period have returned, and the deadline is the
\* last multiple of the resync interval below the wrap

WrapStart == 2096500000
WrapMaxNow == 2103500000
WrapLastCall == 2094000000
WrapLoopAdvances == {0, 100000, 1000000}

InitWrap ==
    /\ pc = "l_check"
    /\ caller = "loop"
    /\ F = 4
    /\ reg = 0
    /\ ZeroXTime = [i \in 0..3 |-> micros(WrapLastCall + 8333 * (i + 1))]
    /\ DimStep = CalcDimStep(ZeroXTime)
    /\ resyncs = (WrapLastCall \div (1000 * PeriodResync)) - 1
    /\ ResetPeriod = PeriodResync * (resyncs + 2)
    /\ DimStepCounter = 0
    /\ raw = [i \in Triacs |-> AnalogMax - 1]
    /\ highs = [i \in Triacs |-> 0]
    /\ stable = [i \in Triacs |-> TRUE]
    /\ watch = {}
    /\ FireTriac = [i \in Triacs |-> FireStep(raw[i])]
    /\ zero_cross = 1
    /\ pin = [i \in Triacs |-> HIGH]
    /\ timerOn = TRUE
    /\ TimerPeriod = DimStep
    /\ now = WrapStart
    /\ writes = [i \in Triacs |-> <<>>]
    /\ ticks = 0
    /\ zcSeen = MaxSeen

NextWrap ==
    \/ measure_clear
    \/ measure_poll
    \/ measure_stamp(Advances, WrapMaxNow)
    \/ measure_reset
    \/ measure_calc
    \/ measure_attach
    \/ measure_sched
    \/ loop_check(WrapLoopAdvances, WrapMaxNow)
    \/ \E i \in Triacs : loop_publish(i, ClockLevels)
    \/ loop_load
    \/ loop_store(ClockMaxStep)
    \/ ZeroCross
    \/ TimerTick(ClockMaxStep)

SpecWrap == InitWrap /\ [][NextWrap]_vars

\* C20 (as claimed): the check of line 120 decides as the clock and the
\* deadline would without wrap-around: it starts a measurement exactly when
\* uptime has reached (calls returned + 1) * PeriodResync, so that after a wrap
\* it neither starts one on every iteration nor stops starting them.
ResyncFollowsUptime ==
    [][(pc = "l_check" /\ MainStep) =>
          ((pc' = "m_clear") <=>
             (now' \div 1000 >= PeriodResync * (CompletedCalls + 1)))]_vars

-----------------------------------------------------------------------------
\* The whole program with every channel's pulses followed: channel 0 is
\* commanded between fire-step 10 (raw sample 1016) and fire-step 0 (raw
\* sample 1023), the other channels stay at fire-step 0, and the step counter
\* is followed past step 10

PulseMaxStep == 11
PulseLow == 1016
PulseLevels(i) == IF i = 0 THEN {PulseLow, AnalogMax - 1} ELSE {AnalogMax - 1}

InitPulse == Boot(Triacs)

NextPulse ==
    \/ setup_timer
    \/ setup_attach
    \/ setup_pins
    \/ measure_clear
    \/ measure_poll
    \/ measure_stamp(Advances, MaxNow)
    \/ measure_reset
    \/ measure_calc
    \/ measure_attach
    \/ measure_sched
    \/ loop_check({0}, MaxNow)
    \/ \E i \in Triacs : loop_publish(i, PulseLevels(i))
    \/ loop_load
    \/ loop_store(PulseMaxStep)
    \/ ZeroCross
    \/ TimerTick(PulseMaxStep)

SpecPulse == InitPulse /\ [][NextPulse]_vars

\* C12 (as claimed): a channel whose fire-step s, 0 < s < DimRes, has not
\* changed since the latest zero-crossing has been set HIGH exactly once when
\* more than s ticks have completed since that crossing, and not at all before:
\* the pulse is issued by the tick that follows s completed ticks, and is
\* neither skipped nor repeated.
PulsedOnceAtFireStep ==
    \A ch \in watch :
       (stable[ch] /\ 0 < FireTriac[ch] /\ FireTriac[ch] < DimRes) =>
          highs[ch] = IF ticks > FireTriac[ch] THEN 1 ELSE 0

\* C19 (as claimed): between two consecutive zero-crossings a channel's line
\* is set HIGH at most once, whatever is published in between.
AtMostOneHigh == \A ch \in watch : highs[ch] <= 1

\* C19 (amended): a channel's line is set HIGH only by a tick that starts with
\* the step counter equal to the fire-step published for the channel at that
\* moment (and different from DimRes), and at most once by one tick; the number
\* of HIGH writes between two zero-crossings is not bounded by one.
HighOnlyAtPublishedStep ==
    [][\A ch \in watch :
          /\ highs'[ch] >= highs[ch] \/ (CrossingStep /\ highs'[ch] = 0)
          /\ highs'[ch] > highs[ch] =>
                /\ TickStep
                /\ highs'[ch] = highs[ch] + 1
                /\ DimStepCounter = FireTriac[ch]
                /\ FireTriac[ch] # DimRes]_vars

\* channel 0 was set HIGH at step 0, fire-step 10 was published afterwards, and
\* the tick at step 10 has set it HIGH a second time in the same half-cycle
HighOnlyAtPublishedStepWitness ==
    /\ highs[0] = 2
    /\ ~stable[0]
    /\ FireTriac[0] = FireStep(PulseLow)
    /\ ticks = FireTriac[0] + 1
    /\ DimStepCounter = ticks

====
